---- MODULE Spec2Model ----
(***************************************************************************)
(* Model of src/app.py: the YouTube download API.                          *)
(*                                                                         *)
(* State: the module globals download_status and cookie_test_cache, the   *)
(* two directories DOWNLOAD_DIR and COOKIES_DIR, the wall clock, the       *)
(* background tasks FastAPI has queued or is running, and the last HTTP   *)
(* response.  Every route handler without an await is one atomic step of  *)
(* the event loop; download_media is cut at its single await (the         *)
(* asyncio.to_thread call).  COOKIES_DIR is written only by the operator  *)
(* of the service and read only when it is listed, so each listing is an  *)
(* input of the step that takes it.  /test-cookies awaits only between    *)
(* its listing and its single write, so it is one step at that write.     *)
(*                                                                         *)
(* resp, recent and picks are history variables: they record what the     *)
(* program answered, how often it accepted a caller, and which cookies it *)
(* selected; the program never reads them.  Spec records none of them;    *)
(* SpecResp, SpecRate and SpecRotation each record one, chosen by audit;   *)
(* SpecBrief, SpecViews and SpecGuard record the responses without        *)
(* telling all of them apart.                                              *)
(*                                                                         *)
(* The Retention Sweeper of the specification (section 4.5) has no code   *)
(* in src/app.py.  SpecSweep adds it, written from the specification, to  *)
(* the program; it is the only reader of the files' modification times,   *)
(* which are recorded under SpecSweep only.                               *)
(*                                                                         *)
(* Identifiers are taken without a '.', so DOWNLOAD_DIR.glob(id + ".*")   *)
(* selects exactly the files <<id, ext>> of that id.  Every behaviour     *)
(* sends requests for two identifiers: "a" and "b", or, under SpecIds,    *)
(* "a" and one identifier that breaks the pattern of the specification.   *)
(***************************************************************************)
EXTENDS Integers, Sequences, FiniteSets, TLC

\* ---------------------------------------------------------------- bounds
MaxTasks == 2          \* background tasks queued or running at one time
MaxTicks == 2          \* clock advances explored

\* ------------------------------------------------------- program constants
RateLimit == 3         \* requests per caller and window (spec, section 8)
CacheTtl == 300        \* seconds the tested cookie list is kept
StartTime == 1000      \* time.time() at process start (any value > CacheTtl)
TickSeconds == 200     \* seconds one clock advance stands for
RetentionAge == 300    \* age in seconds past which the sweeper deletes a file (spec, 4.5)

BadId == "!"                               \* a video_id outside the identifier pattern
Ids == {"a", "b"}
CookieFiles == <<"c1.txt", "c2.txt">>     \* COOKIES_DIR listing order
Exts == {"mp4"}                            \* merge_output_format
VALID_API_KEY == "shadwo"
Keys == {VALID_API_KEY, "wrong"}
None == "None"                             \* get_cookie_file() returning None

NoCookiesMsg == "No working cookies available"
CookieExpiredMsg == "Cookie expired or invalid"
FileNotFoundMsg == "File not found after download"
RawErrors == {"Signature extraction failed", "Video unavailable"}

VARIABLES
    download_status,   \* id -> record of the job, NoRecord when the key is absent
    working_cookies,   \* cookie_test_cache["working_cookies"]
    last_test,         \* cookie_test_cache["last_test"]
    downloads,         \* files in DOWNLOAD_DIR, as <<id, ext, modification time>>
    ticks,             \* clock advances so far; time.time() = Now
    scheduled,         \* id -> download_media tasks queued by add_task, not yet started
    fetching,          \* id -> download_media tasks suspended at await asyncio.to_thread
    picks,             \* cookies get_cookie_file took from the cached pool since it last changed
    recent,            \* download requests of the API key answered with a job view at the current instant
    resp,              \* last HTTP response sent (under SpecSweep: last line of the sweeper's log)
    audit              \* which history variable this behaviour records

vars == <<download_status, working_cookies, last_test, downloads, ticks,
          scheduled, fetching, picks, recent, resp, audit>>

Now == StartTime + ticks * TickSeconds

NoRecord == [status |-> "absent"]
NoResp == [id |-> "-", status |-> "none", detail |-> "-"]

\* ------------------------------------------------------------- helpers
\* the video_id values of the requests of a behaviour
IdsOf(a) == IF a = "ids" THEN {"a", BadId} ELSE Ids

RequestIds == IdsOf(audit)

\* the characters of a video_id
IdChars(id) ==
    CASE id = "a" -> <<"a">>
      [] id = "b" -> <<"b">>
      [] id = BadId -> <<"!">>

\* the identifier pattern of the specification (section 3: letters, digits,
\* "_" and "-"), on the alphabet of the identifiers used here
IdPatternChars == {"a", "b", "0", "1", "_", "-"}

MatchesIdPattern(id) == \A n \in 1..Len(IdChars(id)) : IdChars(id)[n] \in IdPatternChars

Range(s) == {s[k] : k \in 1..Len(s)}

\* subsequences of s (elements kept in order)
RECURSIVE SubSeqs(_)
SubSeqs(s) ==
    IF s = <<>> THEN {<<>>}
    ELSE LET rest == SubSeqs(Tail(s))
         IN rest \cup {<<Head(s)>> \o r : r \in rest}

\* keep the last n elements of s
LastN(s, n) == IF Len(s) <= n THEN s ELSE SubSeq(s, Len(s) - n + 1, Len(s))

\* the values list(COOKIES_DIR.glob("*.txt")) can take
Listings == SubSeqs(CookieFiles)

\* DOWNLOAD_DIR.glob(f"{video_id}.*")
GlobFiles(id) == {f \in downloads : f[1] = id}

\* file.name
FileName(f) == <<f[1], f[2]>>

\* st_mtime of a file written now
MTime == IF audit = "sweep" THEN Now ELSE 0

\* seconds since the file was last modified
Age(f) == Now - f[3]

InFlight(id) == scheduled[id] + fetching[id]

RECURSIVE SumOver(_, _)
SumOver(f, S) ==
    IF S = {} THEN 0
    ELSE LET x == CHOOSE y \in S : TRUE
         IN f[x] + SumOver(f, S \ {x})

TasksAlive == SumOver(scheduled, RequestIds) + SumOver(fetching, RequestIds)

\* words of the lower-cased message the except branch searches
MsgWords(m) ==
    CASE m = "Signature extraction failed" -> {"signature", "extraction", "failed"}
      [] m = "Video unavailable" -> {"video", "unavailable"}
      [] m = FileNotFoundMsg -> {"file", "not", "found", "after", "download"}
      [] OTHER -> {}

SignalWords == {"signature", "invalid argument", "400", "only images"}

\* any(x in error_msg.lower() for x in [...])
HasCookieSignal(m) == MsgWords(m) \cap SignalWords # {}

\* ------------------------------------------------------------ responses
\* one more accepted download request, counted up to RateLimit + 1
Count(n) == IF n <= RateLimit THEN n + 1 ELSE n

Reply(id, status, detail) == [id |-> id, status |-> status, detail |-> detail]

\* the answers a behaviour records as they are; every other answer is
\* recorded as one and the same
Recorded ==
    CASE audit = "brief" -> {"done", "not_found"}
      [] audit = "views" -> {"downloading", "error"}
      [] audit = "guard" -> {"unauthorized", "cleared"}
      [] OTHER -> {}

\* the handler returns r
Respond(r) ==
    resp' = CASE audit \in {"responses", "ids"} -> r
              [] audit \in {"brief", "views", "guard"} ->
                    IF r.status \in Recorded THEN r ELSE Reply("-", "other", "-")
              [] OTHER -> resp

\* a download request was answered with a view of the job
Accepted == recent' = IF audit = "rate" THEN Count(recent) ELSE recent

\* the "file already exists" reply of /song, /video and /status
FileReply(id, f) == Reply(id, "done", f[2])

get_response(video_id, status_info) ==
    CASE status_info.status = "done" -> Reply(video_id, "done", status_info.format)
      [] status_info.status = "error" -> Reply(video_id, "error", status_info.error)
      [] status_info.status = "downloading" ->
            Reply(video_id, "downloading", "Download in progress")
      [] OTHER -> Reply(video_id, status_info.status, "-")

\* ------------------------------------------------------ credential cache
\* The results get_cookie_file() can produce in the current state when a
\* listing of COOKIES_DIR would give cookie_files: the value returned, the
\* cache it leaves behind, and whether COOKIES_DIR was rescanned.  The yt-dlp
\* probe of each cookie file is an external outcome, so any subsequence of
\* the listing may end up in working_cookies.
get_cookie_file_in(cache, tested, cookie_files) ==
    LET expired == Now - tested > CacheTtl
        w0 == IF expired THEN <<>> ELSE cache
        lt == IF expired THEN Now ELSE tested
    IN  IF w0 # <<>>
        THEN {[cookie |-> c, working |-> w0, last |-> lt, scanned |-> FALSE] :
                 c \in Range(w0)}
        ELSE IF cookie_files = <<>>
        THEN {[cookie |-> None, working |-> <<>>, last |-> lt, scanned |-> TRUE]}
        ELSE {[cookie |-> IF w # <<>> THEN w[1] ELSE cookie_files[1],
               working |-> w, last |-> lt, scanned |-> TRUE] :
                 w \in SubSeqs(cookie_files)}

\* get_cookie_file() on the cache as it is, over every listing of COOKIES_DIR
get_cookie_file ==
    UNION {get_cookie_file_in(working_cookies, last_test, cookie_files) :
              cookie_files \in Listings}

\* the selections remembered after a call of get_cookie_file with result o:
\* a rescan starts a new pool, a cached pool of K cookies keeps its last K
PicksAfter(o) ==
    IF o.cookie = None THEN <<None>>
    ELSE IF o.scanned THEN <<>>
    ELSE LastN(Append(picks, o.cookie), Len(o.working))

Picked(p) == picks' = IF audit = "rotation" THEN p ELSE picks

UseCookie(o) ==
    /\ working_cookies' = o.working
    /\ last_test' = o.last
    /\ Picked(PicksAfter(o))

InitWith(a) ==
    /\ audit = a
    /\ download_status = [i \in IdsOf(a) |-> NoRecord]
    /\ working_cookies = <<>>
    /\ last_test = 0
    /\ downloads = {}
    /\ ticks = 0
    /\ scheduled = [i \in IdsOf(a) |-> 0]
    /\ fetching = [i \in IdsOf(a) |-> 0]
    /\ picks = <<>>
    /\ recent = 0
    /\ resp = NoResp

\* ------------------------------------------------------- route handlers
\* validate_api_key raising HTTPException(401)
validate_api_key(k) == k = VALID_API_KEY

Unauthorized ==
    /\ Respond(Reply("-", "unauthorized", "Invalid API key"))
    /\ UNCHANGED <<download_status, working_cookies, last_test, downloads, ticks,
                   scheduled, fetching, picks, recent, audit>>


\* GET /song/{video_id}.  The only assignment of url (line 295) sits after the
\* return inside the registry branch, so the add_task call of a new id reads an
\* unbound local: the request ends in a 500 and nothing is queued.
download_song(id, k) ==
    IF ~validate_api_key(k) THEN Unauthorized
    ELSE
      /\ IF GlobFiles(id) # {}
         THEN /\ \E f \in GlobFiles(id) : Respond(FileReply(id, f))
              /\ Accepted
         ELSE IF download_status[id] # NoRecord
         THEN /\ Respond(get_response(id, download_status[id]))
              /\ Accepted
         ELSE /\ Respond(Reply(id, "internal_error", "UnboundLocalError: url"))
              /\ UNCHANGED recent
      /\ UNCHANGED <<download_status, working_cookies, last_test, downloads,
                     ticks, scheduled, fetching, picks, audit>>

\* /video consulting the registry before DOWNLOAD_DIR
download_video_registry_first(id, k) ==
    IF ~validate_api_key(k) THEN Unauthorized
    ELSE
      /\ Accepted
      /\ IF download_status[id] # NoRecord
         THEN /\ Respond(get_response(id, download_status[id]))
              /\ UNCHANGED scheduled
         ELSE IF GlobFiles(id) # {}
         THEN /\ \E f \in GlobFiles(id) : Respond(FileReply(id, f))
              /\ UNCHANGED scheduled
         ELSE /\ TasksAlive < MaxTasks
              /\ scheduled' = [scheduled EXCEPT ![id] = @ + 1]
              /\ Respond(Reply(id, "downloading", "Download started"))
      /\ UNCHANGED <<download_status, working_cookies, last_test, downloads,
                     ticks, fetching, picks, audit>>

\* /video queueing a new fetch for an id whose job is recorded as failed
download_video_retries_failed(id, k) ==
    IF ~validate_api_key(k) THEN Unauthorized
    ELSE
      /\ Accepted
      /\ IF GlobFiles(id) # {}
         THEN /\ \E f \in GlobFiles(id) : Respond(FileReply(id, f))
              /\ UNCHANGED scheduled
         ELSE IF download_status[id] # NoRecord /\ download_status[id].status # "error"
         THEN /\ Respond(get_response(id, download_status[id]))
              /\ UNCHANGED scheduled
         ELSE /\ TasksAlive < MaxTasks
              /\ scheduled' = [scheduled EXCEPT ![id] = @ + 1]
              /\ Respond(Reply(id, "downloading", "Download started"))
      /\ UNCHANGED <<download_status, working_cookies, last_test, downloads,
                     ticks, fetching, picks, audit>>

\* GET /video/{video_id}.  Lines 332-338 are read as the statement that follows
\* line 331 in the function body.
download_video(id, k) ==
    IF ~validate_api_key(k) THEN Unauthorized
    ELSE
      /\ Accepted
      /\ IF GlobFiles(id) # {}
         THEN /\ \E f \in GlobFiles(id) : Respond(FileReply(id, f))
              /\ UNCHANGED scheduled
         ELSE IF download_status[id] # NoRecord
         THEN /\ Respond(get_response(id, download_status[id]))
              /\ UNCHANGED scheduled
         ELSE /\ TasksAlive < MaxTasks
              /\ scheduled' = [scheduled EXCEPT ![id] = @ + 1]
              /\ Respond(Reply(id, "downloading", "Download started"))
      /\ UNCHANGED <<download_status, working_cookies, last_test, downloads,
                     ticks, fetching, picks, audit>>

\* /status consulting the registry before DOWNLOAD_DIR
check_status_reply_registry_first(id) ==
    IF download_status[id] # NoRecord
    THEN {get_response(id, download_status[id])}
    ELSE IF GlobFiles(id) # {}
    THEN {FileReply(id, f) : f \in GlobFiles(id)}
    ELSE {Reply(id, "not_found", "Video ID not found")}

\* the answers GET /status/{video_id} can give in the current state
\* (files[0] is any of the files the glob found)
check_status_reply(id) ==
    IF GlobFiles(id) # {}
    THEN {FileReply(id, f) : f \in GlobFiles(id)}
    ELSE IF download_status[id] # NoRecord
    THEN {get_response(id, download_status[id])}
    ELSE {Reply(id, "not_found", "Video ID not found")}

\* /status taking the record of a failed job out of the registry as it reads it
check_status_pops_failed(id) ==
    /\ \E r \in check_status_reply(id) : Respond(r)
    /\ IF GlobFiles(id) = {} /\ download_status[id].status = "error"
       THEN download_status' = [download_status EXCEPT ![id] = NoRecord]
       ELSE UNCHANGED download_status
    /\ UNCHANGED <<working_cookies, last_test, downloads,
                   ticks, scheduled, fetching, picks, recent, audit>>

\* GET /status/{video_id}
check_status(id) ==
    /\ \E r \in check_status_reply(id) : Respond(r)
    /\ UNCHANGED <<download_status, working_cookies, last_test, downloads,
                   ticks, scheduled, fetching, picks, recent, audit>>

\* /clear dropping the record and leaving the files
clear_cache_keeps_files(id, k) ==
    IF ~validate_api_key(k) THEN Unauthorized
    ELSE
      /\ download_status' = [download_status EXCEPT ![id] = NoRecord]
      /\ Respond(Reply(id, "cleared", "-"))
      /\ UNCHANGED <<working_cookies, last_test, downloads, ticks, scheduled,
                     fetching, picks, recent, audit>>

\* /clear checking the API key after the deletion
clear_cache_validates_late(id, k) ==
    /\ download_status' = [download_status EXCEPT ![id] = NoRecord]
    /\ downloads' = downloads \ GlobFiles(id)
    /\ IF ~validate_api_key(k)
       THEN Respond(Reply("-", "unauthorized", "Invalid API key"))
       ELSE Respond(Reply(id, "cleared", "-"))
    /\ UNCHANGED <<working_cookies, last_test, ticks, scheduled,
                   fetching, picks, recent, audit>>

\* DELETE /clear/{video_id}
clear_cache(id, k) ==
    IF ~validate_api_key(k) THEN Unauthorized
    ELSE
      /\ download_status' = [download_status EXCEPT ![id] = NoRecord]
      /\ downloads' = downloads \ GlobFiles(id)
      /\ Respond(Reply(id, "cleared", "-"))
      /\ UNCHANGED <<working_cookies, last_test, ticks, scheduled,
                     fetching, picks, recent, audit>>

\* GET /refresh-cookies: the cache is emptied and last_test zeroed, then
\* get_cookie_file() is called for its effect on the cache.
refresh_cookies(k) ==
    IF ~validate_api_key(k) THEN Unauthorized
    ELSE
      /\ \E o \in UNION {get_cookie_file_in(<<>>, 0, cookie_files) :
                           cookie_files \in Listings} :
            UseCookie(o)
      /\ Respond(Reply("-", "refreshed", "-"))
      /\ UNCHANGED <<download_status, downloads, ticks, scheduled, fetching, recent, audit>>

\* GET /test-cookies: an empty COOKIES_DIR is answered at once, otherwise the
\* cache is cleared after the probes to force a retest
test_cookies(no_cookies) ==
    /\ IF no_cookies
       THEN /\ Respond(Reply("-", "error", "No cookies"))
            /\ UNCHANGED <<working_cookies, picks>>
       ELSE /\ working_cookies' = <<>>
            /\ Picked(<<>>)
            /\ Respond(Reply("-", "tested", "-"))
    /\ UNCHANGED <<download_status, last_test, downloads, ticks, scheduled, fetching,
                   recent, audit>>

\* ------------------------------------------------------ background task
ErrorRecord(msg) == [status |-> "error", error |-> msg, message |-> msg]

DoneRecord(f) ==
    [status |-> "done", filename |-> FileName(f), format |-> f[2], type |-> "video",
     link |-> FileName(f)]

\* download_media without the return of its no-cookie branch
download_media_start_no_return(id) ==
    /\ scheduled[id] > 0
    /\ scheduled' = [scheduled EXCEPT ![id] = @ - 1]
    /\ \E o \in get_cookie_file :
          UseCookie(o)
    /\ download_status' = [download_status EXCEPT ![id] =
                              [status |-> "downloading", type |-> "video"]]
    /\ fetching' = [fetching EXCEPT ![id] = @ + 1]
    /\ UNCHANGED <<downloads, ticks, recent, resp, audit>>

\* download_media from its start to the await of the yt-dlp thread (lines 115-132)
download_media_start(id) ==
    /\ scheduled[id] > 0
    /\ scheduled' = [scheduled EXCEPT ![id] = @ - 1]
    /\ \E o \in get_cookie_file :
          /\ UseCookie(o)
          /\ IF o.cookie = None
             THEN /\ download_status' = [download_status EXCEPT ![id] = ErrorRecord(NoCookiesMsg)]
                  /\ UNCHANGED fetching
             ELSE /\ download_status' = [download_status EXCEPT ![id] =
                                            [status |-> "downloading", type |-> "video"]]
                  /\ fetching' = [fetching EXCEPT ![id] = @ + 1]
    /\ UNCHANGED <<downloads, ticks, recent, resp, audit>>

\* the yt-dlp thread writing its output file into DOWNLOAD_DIR
fetcher_write(id, e) ==
    /\ fetching[id] > 0
    /\ \A f \in GlobFiles(id) : f[2] # e
    /\ downloads' = downloads \cup {<<id, e, MTime>>}
    /\ UNCHANGED <<download_status, working_cookies, last_test, ticks,
                   scheduled, fetching, picks, recent, resp, audit>>

\* the except branch without the reset of the cookie cache
download_failed_keeps_cache(id, msg) ==
    /\ UNCHANGED <<working_cookies, picks>>
    /\ download_status' = [download_status EXCEPT ![id] =
          ErrorRecord(IF HasCookieSignal(msg) THEN CookieExpiredMsg ELSE msg)]

\* r updated with the fields of u, as dict.update does
Updated(r, u) ==
    [key \in DOMAIN r \cup DOMAIN u |-> IF key \in DOMAIN u THEN u[key] ELSE r[key]]

\* the except branch updating the record in place instead of replacing it
download_failed_updates_record(id, msg) ==
    /\ IF HasCookieSignal(msg)
       THEN /\ working_cookies' = <<>>
            /\ Picked(<<>>)
            /\ download_status' = [download_status EXCEPT ![id] =
                                      Updated(@, ErrorRecord(CookieExpiredMsg))]
       ELSE /\ UNCHANGED <<working_cookies, picks>>
            /\ download_status' = [download_status EXCEPT ![id] =
                                      Updated(@, ErrorRecord(msg))]

\* the except branch of download_media (lines 147-162)
download_failed(id, msg) ==
    /\ IF HasCookieSignal(msg)
       THEN /\ working_cookies' = <<>>
            /\ Picked(<<>>)
            /\ download_status' = [download_status EXCEPT ![id] = ErrorRecord(CookieExpiredMsg)]
       ELSE /\ UNCHANGED <<working_cookies, picks>>
            /\ download_status' = [download_status EXCEPT ![id] = ErrorRecord(msg)]

\* download_media letting "File not found after download" escape the task
download_media_returned_uncaught(id) ==
    /\ fetching[id] > 0
    /\ fetching' = [fetching EXCEPT ![id] = @ - 1]
    /\ IF GlobFiles(id) = {}
       THEN UNCHANGED download_status
       ELSE \E f \in GlobFiles(id) :
               download_status' = [download_status EXCEPT ![id] = DoneRecord(f)]
    /\ UNCHANGED <<working_cookies, picks, last_test, downloads, ticks, scheduled,
                   recent, resp, audit>>

\* download_media resumed after the thread returned normally (lines 134-146)
download_media_returned(id) ==
    /\ fetching[id] > 0
    /\ fetching' = [fetching EXCEPT ![id] = @ - 1]
    /\ IF GlobFiles(id) = {}
       THEN download_failed(id, FileNotFoundMsg)
       ELSE /\ \E f \in GlobFiles(id) :
                  download_status' = [download_status EXCEPT ![id] = DoneRecord(f)]
            /\ UNCHANGED <<working_cookies, picks>>
    /\ UNCHANGED <<last_test, downloads, ticks, scheduled,
                   recent, resp, audit>>

\* download_media resumed by an exception of the yt-dlp thread
download_media_raised(id, msg) ==
    /\ fetching[id] > 0
    /\ fetching' = [fetching EXCEPT ![id] = @ - 1]
    /\ download_failed(id, msg)
    /\ UNCHANGED <<last_test, downloads, ticks, scheduled,
                   recent, resp, audit>>

\* ----------------------------------------------------------- environment
\* time passes, by more than the window of the rate limit
Tick ==
    /\ ticks < MaxTicks
    /\ ticks' = ticks + 1
    /\ recent' = 0
    /\ UNCHANGED <<download_status, working_cookies, last_test, downloads,
                   scheduled, fetching, picks, resp, audit>>

\* one cycle of the Retention Sweeper: every file older than RetentionAge is
\* deleted together with the registry record of its id
sweep_keeps_records ==
    LET expired == {f \in downloads : Age(f) > RetentionAge}
    IN  /\ downloads' = downloads \ expired
        /\ resp' = Reply(IF expired = {} THEN "-" ELSE (CHOOSE f \in expired : TRUE)[1],
                         "swept", "-")
        /\ UNCHANGED <<download_status, working_cookies, last_test, ticks, scheduled,
                       fetching, picks, recent, audit>>

sweep ==
    LET expired == {f \in downloads : Age(f) > RetentionAge}
    IN  /\ downloads' = downloads \ expired
        /\ download_status' = [id \in RequestIds |->
               IF \E f \in expired : f[1] = id THEN NoRecord ELSE download_status[id]]
        /\ resp' = Reply(IF expired = {} THEN "-" ELSE (CHOOSE f \in expired : TRUE)[1],
                         "swept", "-")
        /\ UNCHANGED <<working_cookies, last_test, ticks, scheduled,
                       fetching, picks, recent, audit>>

Next ==
    \/ \E id \in RequestIds, k \in Keys : download_song(id, k)
    \/ \E id \in RequestIds, k \in Keys : download_video(id, k)
    \/ \E id \in RequestIds : check_status(id)
    \/ \E id \in RequestIds, k \in Keys : clear_cache(id, k)
    \/ \E k \in Keys : refresh_cookies(k)
    \/ \E no_cookies \in {l = <<>> : l \in Listings} : test_cookies(no_cookies)
    \/ \E id \in RequestIds : download_media_start(id)
    \/ \E id \in RequestIds, e \in Exts : fetcher_write(id, e)
    \/ \E id \in RequestIds : download_media_returned(id)
    \/ \E id \in RequestIds, msg \in RawErrors : download_media_raised(id, msg)
    \/ Tick

Init == InitWith("none")
InitResp == InitWith("responses")
InitRate == InitWith("rate")
InitRotation == InitWith("rotation")

Spec == Init /\ [][Next]_vars
SpecResp == InitResp /\ [][Next]_vars
SpecRate == InitRate /\ [][Next]_vars
SpecRotation == InitRotation /\ [][Next]_vars

\* of the responses, the answers outside the registry recorded
InitBrief == InitWith("brief")
SpecBrief == InitBrief /\ [][Next]_vars

\* of the responses, the answers to a refused key and to /clear recorded
InitGuard == InitWith("guard")
SpecGuard == InitGuard /\ [][Next]_vars

\* of the responses, the views of a registry record recorded
InitViews == InitWith("views")
SpecViews == InitViews /\ [][Next]_vars

\* the program together with the Retention Sweeper
InitSweep == InitWith("sweep")
NextSweep == Next \/ sweep
SpecSweep == InitSweep /\ [][NextSweep]_vars

\* requests for an identifier outside the pattern, responses recorded
InitIds == InitWith("ids")
SpecIds == InitIds /\ [][Next]_vars

\* every yt-dlp thread ends, by returning or by raising
FetchEnds(id) ==
    \/ download_media_returned(id)
    \/ \E msg \in RawErrors : download_media_raised(id, msg)

FairSpec == Spec /\ \A id \in Ids : WF_vars(FetchEnds(id))

\* ====================================================================
\* Claims
\* ====================================================================
Terminal == {"done", "error"}

\* C1: once /video accepted a new id ("Download started") and the queued task
\* has not started, a second /video request for the same id reads the job
\* ("Download in progress") and queues no second fetch.
C1_AtMostOneInFlight ==
    [][\A id \in Ids :
         (/\ resp = Reply(id, "downloading", "Download started")
          /\ scheduled[id] > 0
          /\ download_video(id, VALID_API_KEY))
         => (/\ scheduled' = scheduled
             /\ resp' = Reply(id, "downloading", "Download in progress"))]_vars

\* C2: while a file of id is stored, /song, /video (with the API key) and
\* /status answer "done" for id and neither queue nor start a fetch nor touch
\* the registry, whatever record the registry holds.
C2_IdempotentFastPath ==
    [][\A id \in Ids :
         (/\ GlobFiles(id) # {}
          /\ \/ download_song(id, VALID_API_KEY)
             \/ download_video(id, VALID_API_KEY)
             \/ check_status(id))
         => (/\ resp'.id = id
             /\ resp'.status = "done"
             /\ scheduled' = scheduled
             /\ fetching' = fetching
             /\ download_status' = download_status)]_vars

\* a stored file answered "done" although the registry holds a failure
C2_Witness ==
    \E id \in Ids :
       /\ GlobFiles(id) # {}
       /\ download_status[id].status = "error"
       /\ resp = Reply(id, "done", "mp4")

\* C3: in every state, /status answers "done" when a file is stored, else
\* the state of the registry record when there is one, and "not_found"
\* exactly when there is neither a file nor a record.
C3_StatusPriority ==
    \A id \in Ids : \A r \in check_status_reply(id) :
       /\ r.id = id
       /\ GlobFiles(id) # {} => r.status = "done"
       /\ (GlobFiles(id) = {} /\ download_status[id] # NoRecord)
             => r.status = download_status[id].status
       /\ r.status = "not_found"
             <=> (GlobFiles(id) = {} /\ download_status[id] = NoRecord)

\* /status answered from the registry record of a failed job
C3_Witness ==
    \E id \in Ids :
       /\ GlobFiles(id) = {}
       /\ download_status[id].status = "error"
       /\ resp = Reply(id, "error", download_status[id].error)

\* C4: the step that ends a fetch of id leaves the record of id "done" or
\* "error"; and, every fetch ending, a record that is "downloading" leads to
\* a record that is "done" or "error".
C4_NoJobLeftRunning ==
    /\ [][\A id \in Ids :
            fetching'[id] < fetching[id] => download_status'[id].status \in Terminal]_vars
    /\ \A id \in Ids :
          (download_status[id].status = "downloading")
             ~> (download_status[id].status \in Terminal)

\* a fetch ended without a file and the job was recorded as failed
C4_Witness ==
    \E id \in Ids :
       /\ download_status[id] = ErrorRecord(FileNotFoundMsg)
       /\ fetching[id] = 0

\* C5, for a cap of N = 1: fetches of distinct ids never run at the same time.
C5_ConcurrencyBound == Cardinality({id \in Ids : fetching[id] > 0}) <= 1

\* C6, for limit = 3: a caller never has more than 3 download requests
\* accepted at one instant (the fourth is rejected).
C6_RateLimiting == recent <= RateLimit

\* C7: with a pool of K cookies, the last K selections made from the
\* unchanged pool name every cookie of the pool exactly once.
C7_RotationFairness ==
    (working_cookies # <<>> /\ Len(picks) = Len(working_cookies))
       => \A c \in Range(working_cookies) :
             Cardinality({n \in 1..Len(picks) : picks[n] = c}) = 1

\* C8: the step of a task in which get_cookie_file returned None records the
\* job as failed with the no-cookie error and starts no fetch.
C8_NoCredential ==
    [][\A id \in Ids :
         (scheduled'[id] < scheduled[id] /\ picks' = <<None>>)
         => (/\ download_status'[id] = ErrorRecord(NoCookiesMsg)
             /\ fetching' = fetching
             /\ downloads' = downloads)]_vars

\* a task found no cookie and its job is recorded as failed
C8_Witness ==
    \E id \in Ids :
       /\ picks = <<None>>
       /\ download_status[id] = ErrorRecord(NoCookiesMsg)
       /\ InFlight(id) = 0

\* C9: a fetch failing with a signature signal is recorded as failed with
\* the cookie-expired error and empties the cookie cache; a failure without
\* the signal leaves the cache as it is; an empty cache is refilled only by a
\* call of get_cookie_file, and that call rescans COOKIES_DIR.
C9_CredentialInvalid ==
    /\ [][\A id \in Ids :
            /\ download_media_raised(id, "Signature extraction failed")
                  => (/\ download_status'[id] = ErrorRecord(CookieExpiredMsg)
                      /\ working_cookies' = <<>>)
            /\ download_media_raised(id, "Video unavailable")
                  => (/\ download_status'[id] = ErrorRecord("Video unavailable")
                      /\ working_cookies' = working_cookies
                      /\ last_test' = last_test)
            /\ (download_media_returned(id) /\ GlobFiles(id) = {})
                  => (/\ download_status'[id] = ErrorRecord(FileNotFoundMsg)
                      /\ working_cookies' = working_cookies
                      /\ last_test' = last_test)]_vars
    /\ [][(working_cookies = <<>> /\ working_cookies' # <<>>)
            => \/ \E id \in Ids : download_media_start(id)
               \/ refresh_cookies(VALID_API_KEY)]_vars
    /\ [](working_cookies = <<>>
            => \A o \in get_cookie_file : o.scanned)

\* a job failed with the cookie-expired error and the cache, filled at the
\* present time, is empty
C9_Witness ==
    \E id \in Ids :
       /\ download_status[id] = ErrorRecord(CookieExpiredMsg)
       /\ working_cookies = <<>>
       /\ last_test = Now

C11_InvalidIdRejected ==
    [][\A id \in RequestIds :
         (/\ ~MatchesIdPattern(id)
          /\ \/ download_song(id, VALID_API_KEY)
             \/ download_video(id, VALID_API_KEY))
         => (/\ resp'.status \notin {"done", "downloading", "error"}
             /\ download_status' = download_status
             /\ downloads' = downloads
             /\ scheduled' = scheduled)]_vars

C13_NewJobRunning ==
    [][\A id \in Ids :
         (/\ GlobFiles(id) = {}
          /\ download_status[id] = NoRecord
          /\ \/ download_song(id, VALID_API_KEY)
             \/ download_video(id, VALID_API_KEY))
         => (/\ resp'.id = id
             /\ resp'.status = "downloading"
             /\ scheduled' = [scheduled EXCEPT ![id] = @ + 1])]_vars

\* C14: right after a request for id was answered "Download started", a
\* /status request for id is not answered "not_found".
C14_RegisteredAtAcceptance ==
    [][\A id \in Ids :
         (/\ resp = Reply(id, "downloading", "Download started")
          /\ check_status(id))
         => resp'.status \in {"downloading", "done", "error"}]_vars

\* C15: while the registry holds a record of id and no file of id is stored,
\* a /song or /video request with the API key is answered with the state (and,
\* for a failed job, the error) of that record, leaves the registry as it is
\* and neither queues nor starts a fetch.
C15_ExistingRecordReturned ==
    [][\A id \in Ids :
         (/\ GlobFiles(id) = {}
          /\ download_status[id] # NoRecord
          /\ \/ download_song(id, VALID_API_KEY)
             \/ download_video(id, VALID_API_KEY))
         => (/\ resp'.id = id
             /\ resp'.status = download_status[id].status
             /\ download_status[id].status = "error"
                   => resp'.detail = download_status[id].error
             /\ download_status' = download_status
             /\ scheduled' = scheduled
             /\ fetching' = fetching)]_vars

\* the failed job of id was answered as failed, with nothing queued or running
C15_Witness ==
    \E id \in Ids :
       /\ GlobFiles(id) = {}
       /\ download_status[id] = ErrorRecord("Video unavailable")
       /\ resp = Reply(id, "error", "Video unavailable")
       /\ TasksAlive = 0

\* C16: a record that is "done" or "error" keeps its state in every step
\* other than a /clear of its id with the API key.
C16_TerminalStable ==
    [][\A id \in Ids :
         (/\ download_status[id].status \in Terminal
          /\ ~clear_cache(id, VALID_API_KEY))
         => download_status'[id].status = download_status[id].status]_vars

\* C17: while a fetch of id is running and the registry holds no record of
\* id (the record was cleared after the fetch started), the end of the fetch
\* writes no record of id.
C17_StaleWriteDiscarded ==
    [][\A id \in Ids :
         (/\ download_status[id] = NoRecord
          /\ fetching[id] > 0
          /\ fetching'[id] < fetching[id])
         => download_status'[id] = NoRecord]_vars

ResultFields == {"filename", "format", "link"}
ErrorFields == {"error", "message"}

\* C18: a registry record holds the fields filename, format and link exactly
\* when its status is "done" and the fields error and message exactly when
\* its status is "error"; a "downloading" record holds none of them.
C18_FieldsMatchState ==
    \A id \in Ids :
       LET r == download_status[id]
       IN  r # NoRecord =>
             /\ r.status \in {"downloading", "done", "error"}
             /\ IF r.status = "done"
                THEN ResultFields \subseteq DOMAIN r
                ELSE ResultFields \cap DOMAIN r = {}
             /\ IF r.status = "error"
                THEN ErrorFields \subseteq DOMAIN r
                ELSE ErrorFields \cap DOMAIN r = {}

\* the registry holds a finished job and a job that failed on its cookie
\* after its file was written
C18_Witness ==
    \E id \in Ids : \E j \in Ids \ {id} :
       /\ download_status[id].status = "done"
       /\ download_status[j] = ErrorRecord(CookieExpiredMsg)
       /\ GlobFiles(j) # {}

\* C19: a /status request, whatever it answers, leaves the registry, the
\* stored files and the cookie cache as they are and queues and starts no
\* fetch.
C19_StatusReadOnly ==
    [][\A id \in Ids :
         check_status(id) =>
           /\ download_status' = download_status
           /\ downloads' = downloads
           /\ working_cookies' = working_cookies
           /\ last_test' = last_test
           /\ scheduled' = scheduled
           /\ fetching' = fetching]_vars

\* /status answered "not_found" for id, whose fetch is queued and not
\* started, while the registry holds the finished job of the other id and the
\* cookie cache is filled
C19_Witness ==
    \E id \in Ids : \E j \in Ids \ {id} :
       /\ resp = Reply(id, "not_found", "Video ID not found")
       /\ scheduled[id] > 0
       /\ download_status[j].status = "done"
       /\ GlobFiles(j) # {}
       /\ working_cookies # <<>>

\* C20: a /song, /video, /clear or /refresh-cookies request with a key other
\* than the API key is answered "unauthorized" and leaves the registry, the
\* stored files and the cookie cache as they are and queues and starts no
\* fetch.
C20_WrongKeyRejected ==
    [][\A id \in Ids : \A k \in Keys \ {VALID_API_KEY} :
         (\/ download_song(id, k)
          \/ download_video(id, k)
          \/ clear_cache(id, k)
          \/ refresh_cookies(k))
         => (/\ resp'.status = "unauthorized"
             /\ download_status' = download_status
             /\ downloads' = downloads
             /\ working_cookies' = working_cookies
             /\ last_test' = last_test
             /\ scheduled' = scheduled
             /\ fetching' = fetching)]_vars

\* a request was answered "unauthorized" while the registry holds a record,
\* a file is stored, the cookie cache is filled and no task is left
C20_Witness ==
    /\ resp.status = "unauthorized"
    /\ \E id \in Ids : download_status[id].status = "done" /\ GlobFiles(id) # {}
    /\ working_cookies # <<>>
    /\ TasksAlive = 0

====
